---- MODULE Spec2Model ----
(***************************************************************************)
(* Model of src/extensions/default/HTMLCodeHints/html-lint.js: the         *)
(* project-aware lint-configuration orchestrator of the HTML linter.       *)
(*                                                                         *)
(* JavaScript values are modelled as strings: "undefined" and "null" are   *)
(* the two empty values, "false" is a falsy parsed JSON value, "cfgA" and  *)
(* "cfgB" are parsed configuration objects, and every message is the       *)
(* string the code builds.  A path is a record [dir, name], the result of  *)
(* path.join(dir, name).  An optional value is a sequence of length 0 or 1.*)
(*                                                                         *)
(* The file system, the worker and the editor are the environment: what a  *)
(* read, an existence check or the backend yields is an input of the step  *)
(* in which the corresponding promise settles.                             *)
(***************************************************************************)
EXTENDS Integers, Sequences, FiniteSets, TLC

VARIABLES
    projectRoot,              \* ProjectManager.getProjectRoot().fullPath
    appReady,                 \* AppInit.appReady callback has run
    projectSpecificOptions,   \* ProjectConfig
    configErrorMessage,       \* ConfigErrorMessage
    configID,                 \* Generation
    reloads,                  \* reload cycles in flight, in the order they started
    activeEditor,             \* EditorManager.getCurrentFullEditor(): <<>> or <<path>>
    lints,                    \* lint requests waiting for the backend
    runRequests,              \* number of CodeInspection.requestRun calls made
    last                      \* observation of the step just taken

vars == <<projectRoot, appReady, projectSpecificOptions, configErrorMessage,
          configID, reloads, activeEditor, lints, runRequests, last>>

---------------------------------------------------------------------------
(* Bounds of the model *)

\* calls of _reloadOptions in a run
MaxStarts == 2
\* reload cycles in flight at once
MaxReloads == 2
\* lint requests waiting for the backend at once
MaxLints == 1

---------------------------------------------------------------------------
(* Constants of the program *)

CONFIG_FILE_NAME == ".htmlvalidate.json"
\* UNSUPPORTED_CONFIG_FILES in the other order
UNSUPPORTED_CONFIG_FILES_Reversed == <<".htmlvalidate.cjs", ".htmlvalidate.js">>
UNSUPPORTED_CONFIG_FILES == <<".htmlvalidate.js", ".htmlvalidate.cjs">>

Undefined == "undefined"
Null == "null"

\* CodeInspection.Type
TYPE_WARNING == "warning"
TYPE_ERROR == "error"
TYPE_META == "meta"

FileSystemError_NOT_FOUND == "NotFound"
FileSystemError_NOT_READABLE == "NotReadable"

\* Strings.HTML_LINT_CONFIG_JSON_ERROR / HTML_LINT_CONFIG_UNSUPPORTED
HTML_LINT_CONFIG_JSON_ERROR == "HTML_LINT_CONFIG_JSON_ERROR"
HTML_LINT_CONFIG_UNSUPPORTED == "HTML_LINT_CONFIG_UNSUPPORTED"
READ_ERROR_MESSAGE == "Error reading JSHint Config File"

---------------------------------------------------------------------------
(* The environment's values *)

Roots == {"/A/", "/B/"}

\* path.join(dir, name)
PathJoin(dir, name) == [dir |-> dir, name |-> name]

\* JavaScript truthiness of the values of the model
Truthy(v) == v \notin {Undefined, Null, "false", ""}

\* Texts a config file can hold
ConfigTexts == {"{\"a\":1}", "{\"b\":2}", "false", "null", "{not valid json"}

\* JSON.parse: the parsed value, or a thrown SyntaxError
JSONParse(text) ==
    CASE text = "{\"a\":1}" -> [ok |-> TRUE, value |-> "cfgA"]
      [] text = "{\"b\":2}" -> [ok |-> TRUE, value |-> "cfgB"]
      [] text = "false" -> [ok |-> TRUE, value |-> "false"]
      [] text = "null" -> [ok |-> TRUE, value |-> Null]
      [] OTHER -> [ok |-> FALSE, value |-> Undefined]

\* What DocumentManager.getDocumentForPath(configFilePath) settles with:
\* done(configDoc) with the document's text, or fail(err)
ReadResults ==
    {[err |-> "", text |-> t] : t \in ConfigTexts}
    \cup {[err |-> e, text |-> ""] :
            e \in {FileSystemError_NOT_FOUND, FileSystemError_NOT_READABLE}}

\* The unsupported config files that exist in a project
PresentSets == SUBSET {UNSUPPORTED_CONFIG_FILES[i] : i \in 1..Len(UNSUPPORTED_CONFIG_FILES)}

\* StringUtils.format(template, arg) for the two templates the file uses
StringFormat(template, arg) ==
    CASE template = HTML_LINT_CONFIG_JSON_ERROR /\ arg = CONFIG_FILE_NAME
            -> "Error parsing .htmlvalidate.json"
      [] template = HTML_LINT_CONFIG_UNSUPPORTED /\ arg = ".htmlvalidate.js"
            -> "Unsupported config .htmlvalidate.js"
      [] template = HTML_LINT_CONFIG_UNSUPPORTED /\ arg = ".htmlvalidate.cjs"
            -> "Unsupported config .htmlvalidate.cjs"
      [] OTHER -> template

\* ProjectManager.getProjectRelativeOrDisplayPath(path) for a path inside the
\* project root: the path relative to the root
DisplayPath(p) == p.name

---------------------------------------------------------------------------
(* Observations *)

\* The observation of a step: which handler or continuation ran, what it was
\* given, and what it did to the published state.  Fields a step does not
\* use keep the values below.
NoLog ==
    [op |-> "init",
     root |-> "",            \* the cycle's scanningProjectPath
     curRoot |-> "",         \* the project root when the step ran
     switched |-> FALSE,     \* the root changed since the cycle started
     overtaken |-> FALSE,    \* a cycle started later for the same root ended before
     read |-> [err |-> "", text |-> ""],
     present |-> {},         \* unsupported files existing in the scanned project
     outcome |-> [settle |-> "", value |-> ""],
     checking |-> FALSE,     \* the step left an existence check pending
     started |-> FALSE,      \* the step called _reloadOptions
     wrote |-> FALSE,        \* ProjectConfig or ConfigErrorMessage changed
     wroteConfig |-> FALSE,  \* ProjectConfig changed
     idDelta |-> 0,          \* configID after - configID before
     signalled |-> 0,        \* calls of CodeInspection.requestRun
     event |-> <<>>,         \* the notification: <<changedPath, added, removed>>
     path |-> <<>>,          \* the lint request's fullPath
     editor |-> <<>>,        \* the active editor when the step ran
     errAtCall |-> "",       \* configErrorMessage when lintOneFile was called
     sent |-> FALSE,         \* the step handed a request to the backend
     response |-> [given |-> FALSE, items |-> <<>>],   \* the backend's answer
     settled |-> "",         \* "resolve", "reject" or "" (not settled)
     error |-> "",           \* the Error the request was rejected with
     result |-> <<>>]        \* what it resolved with: <<>> (undefined) or <<errors>>

\* What the step did to the published state
Wrote ==
    <<projectSpecificOptions', configErrorMessage'>>
        # <<projectSpecificOptions, configErrorMessage>>
WroteConfig == projectSpecificOptions' # projectSpecificOptions
IdDelta == configID' - configID
Signalled == runRequests' - runRequests

\* The observation `rec` of a step, completed with what the step did
Observe(rec) ==
    [rec EXCEPT !.curRoot = projectRoot', !.editor = activeEditor,
                !.wrote = Wrote, !.wroteConfig = WroteConfig,
                !.idDelta = IdDelta, !.signalled = Signalled,
                !.started = (Len(reloads') > Len(reloads)),
                !.sent = (Len(lints') > Len(lints))]

---------------------------------------------------------------------------
(* Config Loader *)

\* _readConfig with every read error taken as "no config file"
_readConfig_AnyErrorNull(dir, read) ==
    LET parsed == JSONParse(read.text)
    IN  IF read.err = ""
        THEN IF parsed.ok
             THEN [settle |-> "resolve", value |-> parsed.value]
             ELSE [settle |-> "reject",
                   value |-> StringFormat(HTML_LINT_CONFIG_JSON_ERROR, CONFIG_FILE_NAME)]
        ELSE [settle |-> "resolve", value |-> Null]

\* _readConfig(dir): what the returned promise settles with, given what
\* getDocumentForPath settled with
_readConfig(dir, read) ==
    LET configFilePath == PathJoin(dir, CONFIG_FILE_NAME)
        displayPath == DisplayPath(configFilePath)
        parsed == JSONParse(read.text)
    IN  IF read.err = ""
        THEN IF parsed.ok
             THEN [settle |-> "resolve", value |-> parsed.value]
             ELSE [settle |-> "reject",
                   value |-> StringFormat(HTML_LINT_CONFIG_JSON_ERROR, displayPath)]
        ELSE IF read.err = FileSystemError_NOT_FOUND
             THEN [settle |-> "resolve", value |-> Null]
             ELSE [settle |-> "reject", value |-> READ_ERROR_MESSAGE]

---------------------------------------------------------------------------
(* Reload Controller *)

\* A reload cycle in flight.  pc = "read": waiting for _readConfig;
\* pc = "exists": _validateUnsupportedConfig waits for existsAsync of
\* UNSUPPORTED_CONFIG_FILES[idx].
NewCycle(root) ==
    [root |-> root, pc |-> "read", idx |-> 0, present |-> {}, switched |-> FALSE,
     overtaken |-> FALSE]

Reading == {i \in 1..Len(reloads) : reloads[i].pc = "read"}

\* Calls of _reloadOptions so far: each call and each settled read counted
\* one in configID, and the reads still pending will
Starts == (configID + Cardinality(Reading)) \div 2

\* Room for one more cycle
CanReload ==
    /\ Len(reloads) < MaxReloads
    /\ Starts < MaxStarts

RemoveAt(seq, i) == SubSeq(seq, 1, i - 1) \o SubSeq(seq, i + 1, Len(seq))

\* Cycle i ends and leaves `reloads`.  The cycles that started before it for
\* the same root and are still in flight are marked: a cycle started after
\* them has ended before them.
EndCycle(i) ==
    RemoveAt([j \in 1..Len(reloads) |->
                 IF j < i /\ reloads[j].root = reloads[i].root
                 THEN [reloads[j] EXCEPT !.overtaken = TRUE]
                 ELSE reloads[j]], i)

\* RootChanged without the comparison: no continuation is ever stale
RootChanged_Never(scanningProjectPath) == FALSE

\* The comparison both continuations make before they publish
RootChanged(scanningProjectPath) == scanningProjectPath # projectRoot

\* _reloadOptions without the clearing of configErrorMessage
_reloadOptions_KeepsError ==
    /\ CanReload
    /\ projectSpecificOptions' = Null
    /\ configID' = configID + 1
    /\ reloads' = Append(reloads, NewCycle(projectRoot))
    /\ UNCHANGED <<projectRoot, configErrorMessage, activeEditor, lints, runRequests>>

\* _reloadOptions(), up to the point where it returns
_reloadOptions ==
    /\ CanReload
    /\ projectSpecificOptions' = Null
    /\ configErrorMessage' = Null
    /\ configID' = configID + 1
    /\ reloads' = Append(reloads, NewCycle(projectRoot))
    /\ UNCHANGED <<projectRoot, activeEditor, lints, runRequests>>

\* AppInit.appReady: the handlers are registered and the first reload starts
AppReady ==
    /\ ~appReady
    /\ appReady' = TRUE
    /\ _reloadOptions
    /\ last' = Observe([NoLog EXCEPT !.op = "reloadStart"])

\* EVENT_PROJECT_OPEN
ProjectOpen ==
    /\ appReady
    /\ _reloadOptions
    /\ UNCHANGED appReady
    /\ last' = Observe([NoLog EXCEPT !.op = "reloadStart"])

\* The user opens another project: the project root changes
SwitchProject(r) ==
    /\ r # projectRoot
    /\ projectRoot' = r
    /\ reloads' = [i \in 1..Len(reloads) |-> [reloads[i] EXCEPT !.switched = TRUE]]
    /\ UNCHANGED <<appReady, projectSpecificOptions, configErrorMessage, configID,
                   activeEditor, lints, runRequests>>
    /\ last' = Observe([NoLog EXCEPT !.op = "switch"])

\* ReadResolved with a cycle that a later one has overtaken treated as stale
ReadResolved_DropsOvertaken(i, c, config, present) ==
    /\ configID' = configID + 1
    /\ IF RootChanged(c.root) \/ c.overtaken
       THEN /\ reloads' = EndCycle(i)
            /\ UNCHANGED <<projectSpecificOptions, configErrorMessage, runRequests>>
       ELSE IF Truthy(config)
       THEN /\ projectSpecificOptions' = config
            /\ configErrorMessage' = Null
            /\ runRequests' = runRequests + 1
            /\ reloads' = EndCycle(i)
       ELSE /\ reloads' = [reloads EXCEPT ![i] =
                             [c EXCEPT !.pc = "exists", !.idx = 1, !.present = present]]
            /\ UNCHANGED <<projectSpecificOptions, configErrorMessage, runRequests>>

\* ReadResolved with a success that leaves configErrorMessage as it was
ReadResolved_KeepsError(i, c, config, present) ==
    /\ configID' = configID + 1
    /\ IF RootChanged(c.root)
       THEN /\ reloads' = EndCycle(i)
            /\ UNCHANGED <<projectSpecificOptions, configErrorMessage, runRequests>>
       ELSE IF Truthy(config)
       THEN /\ projectSpecificOptions' = config
            /\ runRequests' = runRequests + 1
            /\ reloads' = EndCycle(i)
            /\ UNCHANGED configErrorMessage
       ELSE /\ reloads' = [reloads EXCEPT ![i] =
                             [c EXCEPT !.pc = "exists", !.idx = 1, !.present = present]]
            /\ UNCHANGED <<projectSpecificOptions, configErrorMessage, runRequests>>

\* ReadResolved without its configID++
ReadResolved_NoCount(i, c, config, present) ==
    /\ UNCHANGED configID
    /\ IF RootChanged(c.root)
       THEN /\ reloads' = EndCycle(i)
            /\ UNCHANGED <<projectSpecificOptions, configErrorMessage, runRequests>>
       ELSE IF Truthy(config)
       THEN /\ projectSpecificOptions' = config
            /\ configErrorMessage' = Null
            /\ runRequests' = runRequests + 1
            /\ reloads' = EndCycle(i)
       ELSE /\ reloads' = [reloads EXCEPT ![i] =
                             [c EXCEPT !.pc = "exists", !.idx = 1, !.present = present]]
            /\ UNCHANGED <<projectSpecificOptions, configErrorMessage, runRequests>>

\* The .then continuation of _readConfig in _reloadOptions
ReadResolved(i, c, config, present) ==
    /\ configID' = configID + 1
    /\ IF RootChanged(c.root)
       THEN /\ reloads' = EndCycle(i)
            /\ UNCHANGED <<projectSpecificOptions, configErrorMessage, runRequests>>
       ELSE IF Truthy(config)
       THEN /\ projectSpecificOptions' = config
            /\ configErrorMessage' = Null
            /\ runRequests' = runRequests + 1
            /\ reloads' = EndCycle(i)
       ELSE \* _validateUnsupportedConfig runs up to its first await
            /\ reloads' = [reloads EXCEPT ![i] =
                             [c EXCEPT !.pc = "exists", !.idx = 1, !.present = present]]
            /\ UNCHANGED <<projectSpecificOptions, configErrorMessage, runRequests>>

\* ReadRejected without its configID++
ReadRejected_NoCount(i, c, err) ==
    /\ UNCHANGED configID
    /\ reloads' = EndCycle(i)
    /\ IF RootChanged(c.root)
       THEN UNCHANGED <<projectSpecificOptions, configErrorMessage, runRequests>>
       ELSE /\ configErrorMessage' = err
            /\ runRequests' = runRequests + 1
            /\ UNCHANGED projectSpecificOptions

\* The .catch continuation of _readConfig in _reloadOptions
ReadRejected(i, c, err) ==
    /\ configID' = configID + 1
    /\ reloads' = EndCycle(i)
    /\ IF RootChanged(c.root)
       THEN UNCHANGED <<projectSpecificOptions, configErrorMessage, runRequests>>
       ELSE /\ configErrorMessage' = err
            /\ runRequests' = runRequests + 1
            /\ UNCHANGED projectSpecificOptions

\* _readConfig settles for cycle i: the file read gave `read`, and `present`
\* are the unsupported files in the scanned project at that time
ReadSettle(i, read, present) ==
    /\ i \in Reading
    /\ LET c == reloads[i]
           outcome == _readConfig(c.root, read)
       IN  /\ IF outcome.settle = "resolve"
              THEN ReadResolved(i, c, outcome.value, present)
              ELSE ReadRejected(i, c, outcome.value)
           /\ UNCHANGED <<projectRoot, appReady, activeEditor, lints>>
           /\ last' = Observe([NoLog EXCEPT !.op = "readSettled", !.root = c.root,
                          !.switched = c.switched, !.overtaken = c.overtaken,
                          !.read = read,
                          !.present = present, !.outcome = outcome,
                          !.checking = (Len(reloads') = Len(reloads))])

---------------------------------------------------------------------------
(* Unsupported-Config Detector *)

\* FileSystem.existsAsync(path.join(scanningProjectPath, unsupportedFileName))
ExistsAsync(present, p) == p.name \in present

\* DetectorPublish without the check of the project root
DetectorPublish_NoRootCheck(scanningProjectPath, errorMessage) ==
    /\ configErrorMessage' = errorMessage
    /\ runRequests' = runRequests + 1

\* DetectorPublish that returns when no unsupported file was found
DetectorPublish_SilentWhenNone(scanningProjectPath, errorMessage) ==
    IF RootChanged(scanningProjectPath) \/ errorMessage = Undefined
    THEN UNCHANGED <<configErrorMessage, runRequests>>
    ELSE /\ configErrorMessage' = errorMessage
         /\ runRequests' = runRequests + 1

\* DetectorPublish that discards a stale result only when no file was found
DetectorPublish_StaleFindingKept(scanningProjectPath, errorMessage) ==
    IF RootChanged(scanningProjectPath) /\ errorMessage = Undefined
    THEN UNCHANGED <<configErrorMessage, runRequests>>
    ELSE /\ configErrorMessage' = errorMessage
         /\ runRequests' = runRequests + 1

\* DetectorPublish without the call of CodeInspection.requestRun
DetectorPublish_NoSignal(scanningProjectPath, errorMessage) ==
    IF RootChanged(scanningProjectPath)
    THEN UNCHANGED <<configErrorMessage, runRequests>>
    ELSE /\ configErrorMessage' = errorMessage
         /\ UNCHANGED runRequests

\* The tail of _validateUnsupportedConfig, after the loop
DetectorPublish(scanningProjectPath, errorMessage) ==
    IF RootChanged(scanningProjectPath)
    THEN UNCHANGED <<configErrorMessage, runRequests>>
    ELSE /\ configErrorMessage' = errorMessage
         /\ runRequests' = runRequests + 1

\* The loop of _validateUnsupportedConfig leaves after this check
LoopEnds(idx, exists) == exists \/ idx = Len(UNSUPPORTED_CONFIG_FILES)

\* One existence check of _validateUnsupportedConfig settles for cycle i
ExistsSettle(i) ==
    /\ i \in 1..Len(reloads)
    /\ reloads[i].pc = "exists"
    /\ LET c == reloads[i]
           unsupportedFileName == UNSUPPORTED_CONFIG_FILES[c.idx]
           exists == ExistsAsync(c.present, PathJoin(c.root, unsupportedFileName))
           errorMessage == IF exists
                           THEN StringFormat(HTML_LINT_CONFIG_UNSUPPORTED,
                                             unsupportedFileName)
                           ELSE Undefined
       IN  /\ IF LoopEnds(c.idx, exists)
              THEN /\ DetectorPublish(c.root, errorMessage)
                   /\ reloads' = EndCycle(i)
              ELSE /\ reloads' = [reloads EXCEPT ![i] = [c EXCEPT !.idx = c.idx + 1]]
                   /\ UNCHANGED <<configErrorMessage, runRequests>>
           /\ UNCHANGED <<projectRoot, appReady, projectSpecificOptions, configID,
                          activeEditor, lints>>
           /\ last' = Observe([NoLog EXCEPT !.op = "existsSettled", !.root = c.root,
                          !.switched = c.switched, !.overtaken = c.overtaken,
                          !.present = c.present,
                          !.checking = (Len(reloads') = Len(reloads))])

---------------------------------------------------------------------------
(* Change-Event Router *)

OtherPath == PathJoin("/A/", "index.html")

\* changedPath: absent or a path
EventChanged ==
    {<<>>} \cup {<<PathJoin(r, CONFIG_FILE_NAME)>> : r \in Roots}

\* added, removed: absent (<<>>) or an array (<<array>>)
EventArrays ==
    {<<>>,
     << <<OtherPath, PathJoin("/A/", CONFIG_FILE_NAME)>> >>,
     << <<PathJoin("/B/", CONFIG_FILE_NAME)>> >>}

\* _isFileInArray looking at the first element only
_isFileInArray_FirstOnly(pathToMatch, filePathArray) ==
    IF filePathArray = <<>> \/ filePathArray[1] = <<>>
    THEN FALSE
    ELSE filePathArray[1][1] = pathToMatch

\* _isFileInArray(pathToMatch, filePathArray)
_isFileInArray(pathToMatch, filePathArray) ==
    IF filePathArray = <<>>
    THEN FALSE
    ELSE \E k \in 1..Len(filePathArray[1]) : filePathArray[1][k] = pathToMatch

\* The condition of _projectFileChanged
AffectsConfig(changedPath, added, removed) ==
    LET configFilePath == PathJoin(projectRoot, CONFIG_FILE_NAME)
    IN  \/ changedPath = <<configFilePath>>
        \/ _isFileInArray(configFilePath, added)
        \/ _isFileInArray(configFilePath, removed)

\* _projectFileChanged(_evt, changedPath, added, removed)
_projectFileChanged(changedPath, added, removed) ==
    /\ appReady
    /\ IF AffectsConfig(changedPath, added, removed)
       THEN _reloadOptions
       ELSE UNCHANGED <<projectRoot, projectSpecificOptions, configErrorMessage,
                        configID, reloads, activeEditor, lints, runRequests>>
    /\ UNCHANGED appReady
    /\ last' = Observe([NoLog EXCEPT !.op = "fileChanged",
                           !.event = <<changedPath, added, removed>>])

---------------------------------------------------------------------------
(* Lint Dispatcher *)

\* Files that are linted and shown in the editor
LintPaths == {PathJoin("/A/", "index.html"), PathJoin("/A/", "about.html")}

\* Findings of the backend: {start, end, message, ruleId, severity, ruleUrl}
FindingWarn ==
    [start |-> 0, end |-> 1, message |-> "m1", ruleId |-> "r1", severity |-> 1,
     ruleUrl |-> "u1"]
FindingError ==
    [start |-> 2, end |-> 3, message |-> "m2", ruleId |-> "r2", severity |-> 2,
     ruleUrl |-> "u2"]
FindingOther ==
    [start |-> 1, end |-> 1, message |-> "m1", ruleId |-> "r3", severity |-> 0,
     ruleUrl |-> Undefined]

\* What the backend answers: no value, or an array of findings
LintAnswers ==
    {[given |-> FALSE, items |-> <<>>],
     [given |-> TRUE, items |-> <<>>],
     [given |-> TRUE, items |-> <<FindingWarn>>],
     [given |-> TRUE, items |-> <<FindingError, FindingOther>>]}

\* getTypeFromSeverity with 2 left to the default case
getTypeFromSeverity_NoError(sev) ==
    CASE sev = 1 -> TYPE_WARNING
      [] OTHER -> TYPE_META

\* getTypeFromSeverity(sev)
getTypeFromSeverity(sev) ==
    CASE sev = 1 -> TYPE_WARNING
      [] sev = 2 -> TYPE_ERROR
      [] OTHER -> TYPE_META

\* _getLinterConfigFileErrorMsg()
_getLinterConfigFileErrorMsg ==
    <<[pos |-> [line |-> -1, ch |-> 0],
       message |-> <<configErrorMessage>>,
       type |-> TYPE_ERROR]>>

\* editor.posFromIndex(index), the document taken as one line
PosFromIndex(index) == [line |-> 0, ch |-> index]

\* The function lintOneFile maps over the findings
MapLintError(lintError) ==
    [pos |-> PosFromIndex(lintError.start),
     endPos |-> PosFromIndex(lintError.end),
     message |-> <<lintError.message, " (", lintError.ruleId, ")">>,
     type |-> getTypeFromSeverity(lintError.severity),
     moreInfoURL |-> lintError.ruleUrl]

MapLintResult(items) == [k \in 1..Len(items) |-> MapLintError(items[k])]

STALE_ERROR == "Lint failed as the file is not active."

\* NotActive without the comparison of the paths
NotActive_NoPathCheck(fullPath) == activeEditor = <<>>

\* The test the .then continuation of execPeer makes first
NotActive(fullPath) == activeEditor = <<>> \/ activeEditor[1] # fullPath

\* The unchanged part of every step of the dispatcher
LintFrame ==
    UNCHANGED <<projectRoot, appReady, projectSpecificOptions, configErrorMessage,
                configID, reloads, activeEditor, runRequests>>

\* LintShortCircuit without its return: the request also goes to the backend
LintShortCircuit_NoReturn(fullPath) ==
    /\ Len(lints) < MaxLints
    /\ lints' = Append(lints, [filePath |-> fullPath, configID |-> configID,
                               config |-> projectSpecificOptions])
    /\ LintFrame
    /\ last' = Observe([NoLog EXCEPT !.op = "lintCall", !.path = <<fullPath>>,
                           !.errAtCall = configErrorMessage,
                           !.settled = "resolve",
                           !.result = <<_getLinterConfigFileErrorMsg>>])

\* LintShortCircuit clearing the error it has reported
LintShortCircuit_ConsumesError(fullPath) ==
    /\ UNCHANGED lints
    /\ configErrorMessage' = Null
    /\ UNCHANGED <<projectRoot, appReady, projectSpecificOptions, configID, reloads,
                   activeEditor, runRequests>>
    /\ last' = Observe([NoLog EXCEPT !.op = "lintCall", !.path = <<fullPath>>,
                           !.errAtCall = configErrorMessage,
                           !.settled = "resolve",
                           !.result = <<_getLinterConfigFileErrorMsg>>])

\* lintOneFile(text, fullPath) with a config error: resolves at once
LintShortCircuit(fullPath) ==
    /\ UNCHANGED lints
    /\ LintFrame
    /\ last' = Observe([NoLog EXCEPT !.op = "lintCall", !.path = <<fullPath>>,
                           !.errAtCall = configErrorMessage,
                           !.settled = "resolve",
                           !.result = <<_getLinterConfigFileErrorMsg>>])

\* lintOneFile(text, fullPath) without one: IndexingWorker.execPeer("htmlLint", ...)
LintSend(fullPath) ==
    /\ Len(lints) < MaxLints
    /\ lints' = Append(lints, [filePath |-> fullPath, configID |-> configID,
                               config |-> projectSpecificOptions])
    /\ LintFrame
    /\ last' = Observe([NoLog EXCEPT !.op = "lintCall", !.path = <<fullPath>>,
                           !.errAtCall = configErrorMessage])

\* lintOneFile(text, fullPath), up to the point where the executor returns.
\* The text is handed to the backend unread.
lintOneFile(fullPath) ==
    IF Truthy(configErrorMessage)
    THEN LintShortCircuit(fullPath)
    ELSE LintSend(fullPath)

\* What the .then continuation of execPeer settles the request with
LintSettle(fullPath, lintResult) ==
    IF NotActive(fullPath)
    THEN [settled |-> "reject", error |-> STALE_ERROR, result |-> <<>>]
    ELSE IF lintResult.given /\ Len(lintResult.items) > 0
    THEN \* resolve({errors}); the resolve() that follows changes nothing
         [settled |-> "resolve", error |-> "",
          result |-> <<MapLintResult(lintResult.items)>>]
    ELSE [settled |-> "resolve", error |-> "", result |-> <<>>]

\* The .then continuation of execPeer: the backend answered request i
LintResponse(i, lintResult) ==
    /\ i \in 1..Len(lints)
    /\ lints' = RemoveAt(lints, i)
    /\ LintFrame
    /\ LET fullPath == lints[i].filePath
           settle == LintSettle(fullPath, lintResult)
       IN  last' = Observe([NoLog EXCEPT !.op = "lintResponse",
                               !.path = <<fullPath>>, !.response = lintResult,
                               !.settled = settle.settled, !.error = settle.error,
                               !.result = settle.result])

\* The promise of execPeer rejects: lintOneFile attached no rejection handler,
\* so nothing runs and its own promise stays pending for good
BackendFail(i) ==
    /\ i \in 1..Len(lints)
    /\ lints' = RemoveAt(lints, i)
    /\ LintFrame
    /\ last' = Observe([NoLog EXCEPT !.op = "backendFailed",
                           !.path = <<lints[i].filePath>>])

\* The user activates another editor, or closes the last one
SetActiveEditor(e) ==
    /\ e # activeEditor
    /\ activeEditor' = e
    /\ UNCHANGED <<projectRoot, appReady, projectSpecificOptions, configErrorMessage,
                   configID, reloads, lints, runRequests>>
    /\ last' = Observe([NoLog EXCEPT !.op = "editor"])

---------------------------------------------------------------------------
(* The program *)

\* The module has loaded: line 50, and nothing has run yet
Init ==
    /\ projectRoot = "/A/"
    /\ appReady = FALSE
    /\ projectSpecificOptions = Undefined
    /\ configErrorMessage = Undefined
    /\ configID = 0
    /\ reloads = <<>>
    /\ activeEditor = <<>>
    /\ lints = <<>>
    /\ runRequests = 0
    /\ last = NoLog

\* Steps of the reload controller, the router and the project manager
NextReload ==
    \/ AppReady
    \/ ProjectOpen
    \/ \E r \in Roots : SwitchProject(r)
    \/ \E i \in 1..MaxReloads, read \in ReadResults, present \in PresentSets :
          ReadSettle(i, read, present)
    \/ \E i \in 1..MaxReloads : ExistsSettle(i)
    \/ \E changedPath \in EventChanged, added \in EventArrays, removed \in EventArrays :
          _projectFileChanged(changedPath, added, removed)

\* Steps of the lint dispatcher, the backend and the editor
NextLint ==
    \/ \E fullPath \in LintPaths : lintOneFile(fullPath)
    \/ \E i \in 1..MaxLints, lintResult \in LintAnswers : LintResponse(i, lintResult)
    \/ \E i \in 1..MaxLints : BackendFail(i)
    \/ \E e \in {<<>>} \cup {<<p>> : p \in LintPaths} : SetActiveEditor(e)

Next == NextReload \/ NextLint

Spec == Init /\ [][Next]_vars

\* The reload controller alone: no lint request is made
SpecReload == Init /\ [][NextReload]_vars

\* Every file-system call a cycle in flight waits for completes: the read of
\* the config file settles and each existence check settles
FileSystemCompletes ==
    \A i \in 1..MaxReloads :
        /\ WF_vars(\E read \in ReadResults, present \in PresentSets :
                      ReadSettle(i, read, present))
        /\ WF_vars(ExistsSettle(i))

\* The reload controller with file-system calls that complete
SpecReloadFair == Init /\ [][NextReload]_vars /\ FileSystemCompletes

\* Reloads of one project, which stays open
NextReloadOneProject ==
    \/ AppReady
    \/ ProjectOpen
    \/ \E i \in 1..MaxReloads, read \in ReadResults, present \in PresentSets :
          ReadSettle(i, read, present)
    \/ \E i \in 1..MaxReloads : ExistsSettle(i)

\* The reloads that run beside the lint dispatcher in SpecLint: at most two
\* reloads start and overlap there, whatever the bounds of the model; more
\* reloads are the matter of SpecReload
NextReloadForLint ==
    /\ NextReloadOneProject
    /\ Len(reloads') <= 2
    /\ Starts' <= 2

\* The lint dispatcher while one project is reloaded
SpecLint == Init /\ [][NextReloadForLint \/ NextLint]_vars

---------------------------------------------------------------------------
(* Properties *)

IsSet(v) == v \notin {Undefined, Null}

\* A continuation of a reload cycle ran in the last step
ContinuationRan == last.op \in {"readSettled", "existsSettled"}

\* The project root differed from the cycle's captured root when it ran
StaleAtResolution == ContinuationRan /\ last.root # last.curRoot

UnsupportedMessages ==
    {StringFormat(HTML_LINT_CONFIG_UNSUPPORTED, ".htmlvalidate.js"),
     StringFormat(HTML_LINT_CONFIG_UNSUPPORTED, ".htmlvalidate.cjs")}

\* C1: a continuation of a reload cycle (the read settling, with success or
\* failure, or an existence check completing) that runs while the project
\* root differs from the root the cycle captured changes neither
\* ProjectConfig nor ConfigErrorMessage.
C1_StaleContinuationWritesNothing ==
    StaleAtResolution => ~last.wrote

\* C1 witness: a read that yields a config object settles for a cycle whose
\* root is no longer the project root, and a config error of the new
\* project's reload stays published.
C1_Witness ==
    /\ last.op = "readSettled"
    /\ last.root # last.curRoot
    /\ last.outcome = [settle |-> "resolve", value |-> "cfgA"]
    /\ IsSet(configErrorMessage)

\* C2: a lintOneFile call made while ConfigErrorMessage is set resolves with
\* exactly one diagnostic, which carries that message with type ERROR at line
\* -1, and hands nothing to the backend.
C2_ConfigErrorShortCircuits ==
    (last.op = "lintCall" /\ IsSet(last.errAtCall)) =>
        /\ last.settled = "resolve"
        /\ last.result = << <<[pos |-> [line |-> -1, ch |-> 0],
                               message |-> <<last.errAtCall>>,
                               type |-> TYPE_ERROR]>> >>
        /\ ~last.sent

\* C2 witness: lintOneFile was called with an unsupported-config error set.
C2_Witness ==
    /\ last.op = "lintCall"
    /\ last.errAtCall = StringFormat(HTML_LINT_CONFIG_UNSUPPORTED, ".htmlvalidate.cjs")
    /\ last.settled = "resolve"

\* C3: when the backend answers a request while there is no active editor or
\* the active editor shows another file, the request is rejected with the
\* stale-result error and yields no diagnostics, whatever the answer was.
C3_StaleResponseRejected ==
    (last.op = "lintResponse" /\ (last.editor = <<>> \/ last.editor # last.path)) =>
        /\ last.settled = "reject"
        /\ last.error = STALE_ERROR
        /\ last.result = <<>>

\* C3 witness: the backend answered with findings while the editor showed
\* another file.
C3_Witness ==
    /\ last.op = "lintResponse"
    /\ last.editor # <<>>
    /\ last.editor # last.path
    /\ Len(last.response.items) > 0
    /\ last.settled = "reject"

\* The elements of an optional array
Elements(arr) == IF arr = <<>> THEN {} ELSE {arr[1][k] : k \in 1..Len(arr[1])}

\* The notification names the config file of the project root `root`
NamesConfigFile(root, changedPath, added, removed) ==
    LET configFilePath == [dir |-> root, name |-> ".htmlvalidate.json"]
    IN  \/ changedPath = <<configFilePath>>
        \/ configFilePath \in Elements(added)
        \/ configFilePath \in Elements(removed)

\* C4: a call of _projectFileChanged starts a reload cycle if and only if
\* the config file path of the current project root is the changed path or
\* is in the added or in the removed collection.
C4_ReloadIffConfigFileNamed ==
    last.op = "fileChanged" =>
        /\ last.started <=>
              NamesConfigFile(last.curRoot, last.event[1], last.event[2], last.event[3])
        /\ last.idDelta = IF last.started THEN 1 ELSE 0

\* C4 witness: a notification that names the config file only as the second
\* element of its removed collection has started a reload cycle.
C4_Witness ==
    /\ last.op = "fileChanged"
    /\ last.started
    /\ last.event[1] = <<>>
    /\ last.event[2] = <<>>
    /\ last.event[3] = << <<OtherPath, [dir |-> "/A/", name |-> ".htmlvalidate.json"]>> >>
    /\ reloads[Len(reloads)] = NewCycle("/A/")

\* C5: _readConfig resolves with the parsed value when the file holds valid
\* JSON, resolves with null when the read fails with NOT_FOUND, and rejects
\* with a message when the JSON is invalid or the read fails otherwise.
C5_ReadConfigOutcomes ==
    last.op = "readSettled" =>
        LET parsed == JSONParse(last.read.text)
        IN  /\ (last.read.err = "" /\ parsed.ok) =>
                  last.outcome = [settle |-> "resolve", value |-> parsed.value]
            /\ last.read.err = FileSystemError_NOT_FOUND =>
                  last.outcome = [settle |-> "resolve", value |-> Null]
            /\ (last.read.err = "" /\ ~parsed.ok) =>
                  (last.outcome.settle = "reject" /\ IsSet(last.outcome.value))
            /\ last.read.err \notin {"", FileSystemError_NOT_FOUND} =>
                  (last.outcome.settle = "reject" /\ IsSet(last.outcome.value))

\* C5 witness: a read failed with an error other than NOT_FOUND and the
\* failure message was published.
C5_Witness ==
    /\ last.op = "readSettled"
    /\ last.read.err = FileSystemError_NOT_READABLE
    /\ last.outcome.settle = "reject"
    /\ configErrorMessage = last.outcome.value

\* C6: when the detector finishes with the project root unchanged, the error
\* names .htmlvalidate.js if that file exists, .htmlvalidate.cjs if only that
\* one exists, and there is no error if neither exists.
C6_FirstUnsupportedReported ==
    (last.op = "existsSettled" /\ ~last.checking /\ last.root = last.curRoot) =>
        configErrorMessage =
            IF ".htmlvalidate.js" \in last.present
            THEN StringFormat(HTML_LINT_CONFIG_UNSUPPORTED, ".htmlvalidate.js")
            ELSE IF ".htmlvalidate.cjs" \in last.present
            THEN StringFormat(HTML_LINT_CONFIG_UNSUPPORTED, ".htmlvalidate.cjs")
            ELSE Undefined

\* C6 witness: the detector has finished in a project holding both files.
C6_Witness ==
    /\ last.op = "existsSettled"
    /\ ~last.checking
    /\ last.root = last.curRoot
    /\ last.present = {".htmlvalidate.js", ".htmlvalidate.cjs"}
    /\ configErrorMessage = StringFormat(HTML_LINT_CONFIG_UNSUPPORTED, ".htmlvalidate.js")

\* C7: the unsupported-config check starts only in a cycle whose read
\* resolved with null; a cycle whose read resolved with a config object
\* starts no check and sets no UnsupportedFormat error.
C7_CheckOnlyAfterNull ==
    last.op = "readSettled" =>
        /\ last.checking => last.outcome = [settle |-> "resolve", value |-> Null]
        /\ last.outcome.value \in {"cfgA", "cfgB"} =>
              (~last.checking /\ configErrorMessage \notin UnsupportedMessages)

\* C8 as claimed: a cycle during which the project root changed at any point
\* never writes ProjectConfig or ConfigErrorMessage and never signals a
\* re-run, also when the root has been switched back.
C8_SwitchedCycleDropped ==
    (ContinuationRan /\ last.switched) => (~last.wrote /\ last.signalled = 0)

\* C8 amended: a continuation that runs while the project root differs from
\* the cycle's captured root writes nothing and signals nothing, and a read
\* that settles then starts no unsupported-config check.
C8_StaleCycleDropped ==
    StaleAtResolution =>
        /\ ~last.wrote
        /\ last.signalled = 0
        /\ last.op = "readSettled" => ~last.checking

\* C8 witness: the read of a cycle fails after the project was switched and
\* while another project is open.
C8_Witness ==
    /\ last.op = "readSettled"
    /\ last.switched
    /\ last.root # last.curRoot
    /\ last.outcome.settle = "reject"
    /\ ~last.wrote

\* C9 as claimed: configID never decreases and grows at every start of a
\* reload, after the read settles and after every existence check.
C9_CountsEveryAsyncStep ==
    /\ last.idDelta >= 0
    /\ last.started => last.idDelta = 1
    /\ ContinuationRan => last.idDelta = 1

\* C9 amended: configID never decreases; it grows by one at every start of a
\* reload and when the read settles, with success or failure, and no other
\* step changes it: an existence check leaves it as it was.
C9_CountsStartAndRead ==
    /\ last.idDelta >= 0
    /\ last.idDelta = IF last.started \/ last.op = "readSettled" THEN 1 ELSE 0

\* C9 witness: an existence check has completed and published an error
\* without configID changing.
C9_Witness ==
    /\ last.op = "existsSettled"
    /\ last.idDelta = 0
    /\ last.wrote
    /\ configErrorMessage \in UnsupportedMessages

LintOps == {"lintCall", "lintResponse", "backendFailed"}
ReloadOps == {"reloadStart", "fileChanged", "readSettled", "existsSettled"}

\* C10: no step of a lint request changes ProjectConfig, ConfigErrorMessage
\* or configID; only steps of the reload controller do, and they put a whole
\* value in ProjectConfig: null at the start, the read's config on success.
C10_OnlyReloadWrites ==
    /\ last.op \in LintOps => (~last.wrote /\ last.idDelta = 0)
    /\ (last.wrote \/ last.idDelta # 0) => last.op \in ReloadOps
    /\ last.started => projectSpecificOptions = Null
    /\ (last.op = "readSettled" /\ last.root = last.curRoot
            /\ last.outcome.settle = "resolve" /\ Truthy(last.outcome.value)) =>
          projectSpecificOptions = last.outcome.value

\* C10 witness: a lint request has resolved with diagnostics while a config
\* is published.
C10_Witness ==
    /\ last.op = "lintResponse"
    /\ last.settled = "resolve"
    /\ last.result # <<>>
    /\ projectSpecificOptions = "cfgB"

\* C11 as claimed: in every state ProjectConfig and ConfigErrorMessage are
\* not both set: whenever ConfigErrorMessage holds a message, ProjectConfig
\* is cleared.
C11_NotBothSet ==
    IsSet(configErrorMessage) => ~IsSet(projectSpecificOptions)

\* C12: a reload cycle that ends after a cycle started later for the same
\* root has ended, and while the project root equals its captured root,
\* passes the root check: it signals a re-run and publishes its own outcome
\* over what is published, the config of its read on success, the failure
\* message on failure, the detector's message after a null read.
C12_OvertakenCyclePublishes ==
    (ContinuationRan /\ last.overtaken /\ ~last.checking
        /\ last.root = last.curRoot) =>
        /\ last.signalled = 1
        /\ (last.op = "readSettled" /\ last.outcome.settle = "resolve") =>
              /\ projectSpecificOptions = last.outcome.value
              /\ configErrorMessage = Null
        /\ (last.op = "readSettled" /\ last.outcome.settle = "reject") =>
              configErrorMessage = last.outcome.value
        /\ last.op = "existsSettled" =>
              configErrorMessage \in UnsupportedMessages \cup {Undefined}

\* C12 witness: both cycles have ended, the root never changed, and the
\* cycle that started first ended last and replaced what was published by
\* the config of its own, older read.
C12_Witness ==
    /\ last.op = "readSettled"
    /\ last.overtaken
    /\ ~last.switched
    /\ last.root = last.curRoot
    /\ last.outcome = [settle |-> "resolve", value |-> "cfgA"]
    /\ last.wrote
    /\ projectSpecificOptions = "cfgA"
    /\ reloads = <<>>

\* C13: a step that calls _reloadOptions leaves ProjectConfig and
\* ConfigErrorMessage both null and configID one higher, and the cycle it
\* adds holds the project root of that moment and waits for its read, with
\* no continuation run yet; this holds from every state, also with another
\* cycle in flight.
C13_StartClearsAndCaptures ==
    last.started =>
        /\ projectSpecificOptions = Null
        /\ configErrorMessage = Null
        /\ last.idDelta = 1
        /\ reloads # <<>>
        /\ reloads[Len(reloads)] = NewCycle(last.curRoot)

\* C13 witness: a reload has started while an earlier cycle, begun in the
\* project that was open before, still waits for an existence check.
C13_Witness ==
    /\ last.started
    /\ Len(reloads) = 2
    /\ reloads[1].pc = "exists"
    /\ reloads[1].root # reloads[2].root
    /\ reloads[2].root = projectRoot

\* C14: when the read of a reload cycle settles while the project root
\* equals the cycle's captured root, the cycle publishes its outcome and
\* signals one re-run in that step: a read that gave a config makes it the
\* ProjectConfig and clears ConfigErrorMessage; a read that failed makes its
\* message the ConfigErrorMessage.
C14_ResolutionPublishesOutcome ==
    (last.op = "readSettled" /\ last.root = last.curRoot) =>
        /\ (last.outcome.settle = "resolve" /\ Truthy(last.outcome.value)) =>
              /\ projectSpecificOptions = last.outcome.value
              /\ configErrorMessage = Null
              /\ last.signalled = 1
              /\ ~last.checking
        /\ last.outcome.settle = "reject" =>
              /\ configErrorMessage = last.outcome.value
              /\ last.signalled = 1
              /\ ~last.checking

\* C14 witness: the read of a config file that does not parse has settled in
\* the project the cycle started in, and the parse error is published.
C14_Witness ==
    /\ last.op = "readSettled"
    /\ last.root = last.curRoot
    /\ last.read = [err |-> "", text |-> "{not valid json"]
    /\ last.outcome.settle = "reject"
    /\ configErrorMessage = "Error parsing .htmlvalidate.json"
    /\ last.signalled = 1

\* C15 as claimed: the detector sets ConfigErrorMessage and signals a re-run
\* only when it found an unsupported file and the project root is still the
\* captured root; when it found none, or the root changed, it writes nothing
\* and signals nothing.
C15_DetectorActsOnlyOnFinding ==
    (last.op = "existsSettled" /\ ~last.checking) =>
        IF last.present # {} /\ last.root = last.curRoot
        THEN configErrorMessage \in UnsupportedMessages /\ last.signalled = 1
        ELSE ~last.wrote /\ last.signalled = 0

\* C15 amended: the detector never writes ProjectConfig, and writes and
\* signals nothing before its last existence check.  When it ends with the
\* project root still the captured root it assigns ConfigErrorMessage and
\* signals one re-run whether or not it found a file: the unsupported-format
\* message if it found one, undefined if it found none.  When it ends with
\* the root changed it writes nothing and signals nothing.
C15_DetectorPublishesWhenCurrent ==
    last.op = "existsSettled" =>
        /\ ~last.wroteConfig
        /\ last.checking => (~last.wrote /\ last.signalled = 0)
        /\ (~last.checking /\ last.root # last.curRoot) =>
              (~last.wrote /\ last.signalled = 0)
        /\ (~last.checking /\ last.root = last.curRoot) =>
              /\ last.signalled = 1
              /\ configErrorMessage \in
                    (IF last.present = {} THEN {Undefined} ELSE UnsupportedMessages)

\* C15 witness: the detector has ended in the project it was started for
\* without finding an unsupported file; it has replaced the published
\* ConfigErrorMessage by undefined and signalled a re-run.
C15_Witness ==
    /\ last.op = "existsSettled"
    /\ ~last.checking
    /\ last.root = last.curRoot
    /\ last.present = {}
    /\ last.wrote
    /\ last.signalled = 1
    /\ configErrorMessage = Undefined

\* C16: when the detector ends while the project root differs from the path
\* it was called with, ConfigErrorMessage and ProjectConfig are as they were
\* and no re-run is signalled, whether the scanned project holds an
\* unsupported file or not.
C16_StaleDetectorDiscards ==
    \A present \in PresentSets :
        (last.op = "existsSettled" /\ ~last.checking /\ last.present = present
            /\ last.root # last.curRoot) =>
            (~last.wrote /\ ~last.wroteConfig /\ last.signalled = 0)

\* C16 witness: the detector has found .htmlvalidate.cjs in a project that
\* is no longer open, and nothing was published or signalled.
C16_Witness ==
    /\ last.op = "existsSettled"
    /\ ~last.checking
    /\ last.root # last.curRoot
    /\ last.present = {".htmlvalidate.cjs"}
    /\ ~last.wrote
    /\ last.signalled = 0
    /\ configErrorMessage = Null

\* C17: a backend answer that arrives while the request's file is the active
\* editor's resolves the request.  With findings, the result holds one
\* diagnostic per finding, in the same order, with the message
\* "<text> (<ruleId>)", the type WARNING for severity 1, ERROR for 2 and
\* META for any other, and the finding's rule URL.  With an empty or absent
\* answer the request resolves with an undefined result.
C17_FindingsMappedInOrder ==
    (last.op = "lintResponse" /\ last.editor = last.path) =>
        LET items == last.response.items
        IN  /\ last.settled = "resolve"
            /\ IF last.response.given /\ Len(items) > 0
               THEN /\ Len(last.result) = 1
                    /\ Len(last.result[1]) = Len(items)
                    /\ \A k \in 1..Len(items) :
                          LET d == last.result[1][k]
                          IN  /\ d.message = <<items[k].message, " (", items[k].ruleId, ")">>
                              /\ d.type = IF items[k].severity = 1 THEN "warning"
                                          ELSE IF items[k].severity = 2 THEN "error"
                                          ELSE "meta"
                              /\ d.moreInfoURL = items[k].ruleUrl
               ELSE last.result = <<>>

\* C17 witness: an answer with a finding of severity 2 followed by one of
\* severity 0 has resolved the request with an ERROR and then a META
\* diagnostic.
C17_Witness ==
    /\ last.op = "lintResponse"
    /\ last.editor = last.path
    /\ last.response.items = <<FindingError, FindingOther>>
    /\ last.settled = "resolve"
    /\ Len(last.result) = 1
    /\ last.result[1][1].type = TYPE_ERROR
    /\ last.result[1][2].type = TYPE_META
    /\ last.result[1][2].message = <<"m1", " (", "r3", ")">>

\* C18: a request handed to the backend carries the ProjectConfig and the
\* configID of the moment of the call; ProjectConfig changes only in steps
\* that raise configID, and configID never falls.  So a request in flight
\* whose configID is still the current one carries the current ProjectConfig,
\* and requests that carry the same configID carry the same ProjectConfig.
C18_SameGenerationSameConfig ==
    /\ (last.op = "lintCall" /\ last.sent) =>
          lints[Len(lints)] = [filePath |-> last.path[1], configID |-> configID,
                               config |-> projectSpecificOptions]
    /\ last.wroteConfig => last.idDelta > 0
    /\ last.idDelta >= 0
    /\ \A k \in 1..Len(lints) :
          /\ lints[k].configID <= configID
          /\ lints[k].configID = configID => lints[k].config = projectSpecificOptions
          /\ \A j \in 1..Len(lints) :
                lints[j].configID = lints[k].configID => lints[j].config = lints[k].config

\* C18 witness: a request was handed to the backend with the config a reload
\* has published and with the configID that reload left.
C18_Witness ==
    /\ last.op = "lintCall"
    /\ last.sent
    /\ projectSpecificOptions = "cfgB"
    /\ lints[Len(lints)].config = "cfgB"
    /\ lints[Len(lints)].configID = 2
    /\ configID = 2

\* C19 as claimed: every lint request settles, for every outcome of the
\* backend call: the step that ends a request (the short circuit at the
\* call, the backend's answer, or the failure of the backend call) resolves
\* or rejects it.
C19_EveryRequestSettles ==
    (\/ last.op = "lintCall" /\ ~last.sent
     \/ last.op \in {"lintResponse", "backendFailed"}) =>
        last.settled \in {"resolve", "reject"}

\* C20: with file-system calls that complete, every reload cycle in flight
\* ends, and it ends in one of two ways: while the project root differs from
\* its captured root, with nothing written and no re-run signalled, or else
\* with one re-run signalled; its earlier continuations signal nothing.  So
\* every start of a reload is followed by a re-run signal unless the project
\* root is switched, also when the project holds no config file and no
\* unsupported file.
C20_CycleEndsOneWay ==
    /\ [](ContinuationRan =>
            /\ last.signalled = IF ~last.checking /\ last.root = last.curRoot
                                THEN 1 ELSE 0
            /\ last.root # last.curRoot => ~last.wrote)
    /\ (reloads # <<>>) ~> (reloads = <<>>)
    /\ last.started ~> (last.signalled = 1 \/ last.op = "switch")

\* C20 witness: a cycle whose read found no config file and whose scanned
\* project holds no unsupported file has ended with a re-run signal, and no
\* cycle is left in flight.
C20_Witness ==
    /\ last.op = "existsSettled"
    /\ ~last.checking
    /\ ~last.switched
    /\ last.present = {}
    /\ last.signalled = 1
    /\ projectSpecificOptions = Null
    /\ configErrorMessage = Undefined
    /\ reloads = <<>>

====
